---- MODULE Spec2Model ----
(***************************************************************************)
(* Cox-Ross-Rubinstein binomial lattice pricer (src/Binomial.py).          *)
(*                                                                         *)
(* Numbers.  The program computes in IEEE double precision (numpy          *)
(* float64).  The model computes in exact extended rationals: a number is  *)
(* a pair <<n, d>>, in lowest terms with d > 0 when it is finite, and      *)
(* <<1,0>> = +inf, <<-1,0>> = -inf, <<0,0>> = NaN, with the IEEE rules for *)
(* the three special values (x/0, inf - inf, 0 * inf, comparisons with     *)
(* NaN are false).  Rounding error is not modelled.                        *)
(*                                                                         *)
(* Arguments of exp.  The program only uses volatility, interest_rate and  *)
(* dividend_yield multiplied by (a root of) delta_time inside exp().  Such *)
(* a log-domain quantity is a pair <<a, b>> standing for                   *)
(* a*ln(2) + b*ln(5/4), so that exp of it is the rational 2^a * (5/4)^b.   *)
(* The time unit is chosen so that |delta_time| is 0 or 1.                 *)
(***************************************************************************)
EXTENDS Integers, Sequences, FiniteSets, TLC

\* ------------------------------------------------------------ bounds
MaxSteps == 4
MaxStrike == 3
MaxPrice == 2

\* ------------------------------------------------------------ numbers
NaN == <<0, 0>>
PInf == <<1, 0>>
NInf == <<-1, 0>>

Abs(n) == IF n < 0 THEN -n ELSE n

Sgn(n) == IF n > 0 THEN 1 ELSE IF n < 0 THEN -1 ELSE 0

RECURSIVE GCD(_, _)
GCD(a, b) == IF b = 0 THEN a ELSE GCD(b, a % b)

\* the number n/d; d = 0 gives the special value of n's sign
Rat(n, d) ==
    IF d = 0 THEN <<Sgn(n), 0>>
    ELSE LET g == GCD(Abs(n), Abs(d))
             s == IF d < 0 THEN -1 ELSE 1
         IN  <<s * (n \div g), s * (d \div g)>>

Num(k) == <<k, 1>>

IsNaN(x) == x = NaN
IsFinite(x) == x[2] > 0

Neg(x) == <<-x[1], x[2]>>

Add(x, y) ==
    IF IsNaN(x) \/ IsNaN(y) THEN NaN
    ELSE IF IsFinite(x) /\ IsFinite(y)
         THEN LET g == GCD(x[2], y[2])
                  l == (x[2] \div g) * y[2]
              IN  Rat(x[1] * (l \div x[2]) + y[1] * (l \div y[2]), l)
    ELSE IF IsFinite(x) THEN y
    ELSE IF IsFinite(y) THEN x
    ELSE IF x = y THEN x ELSE NaN

Sub(x, y) == Add(x, Neg(y))

Mul(x, y) ==
    IF IsNaN(x) \/ IsNaN(y) THEN NaN
    ELSE IF IsFinite(x) /\ IsFinite(y)
         THEN LET g1 == GCD(Abs(x[1]), y[2])
                  g2 == GCD(Abs(y[1]), x[2])
              IN  <<(x[1] \div g1) * (y[1] \div g2), (x[2] \div g2) * (y[2] \div g1)>>
    ELSE IF x[1] = 0 \/ y[1] = 0 THEN NaN
    ELSE <<Sgn(x[1]) * Sgn(y[1]), 0>>

\* float64 division: x/0 is +-inf or NaN, never an exception
Div(x, y) ==
    IF IsNaN(x) \/ IsNaN(y) THEN NaN
    ELSE IF IsFinite(y)
         THEN IF y[1] = 0
              THEN (IF x[1] = 0 THEN NaN ELSE <<Sgn(x[1]), 0>>)
              ELSE Mul(x, Rat(y[2], y[1]))
    ELSE IF IsFinite(x) THEN Num(0) ELSE NaN

\* the sign of a/b - c/d for b, d > 0, by integer parts and then the
\* reciprocals of the fractional parts (no product of the operands is formed)
RECURSIVE Cmp(_, _, _, _)
Cmp(a, b, c, d) ==
    LET qa == a \div b
        qc == c \div d
        ra == a % b
        rc == c % d
    IN  IF qa # qc THEN Sgn(qa - qc)
        ELSE IF ra = 0 \/ rc = 0 THEN Sgn(ra) - Sgn(rc)
        ELSE Cmp(d, rc, b, ra)

\* x > y; false as soon as one side is NaN
Gt(x, y) ==
    IF IsNaN(x) \/ IsNaN(y) THEN FALSE
    ELSE IF IsFinite(x) /\ IsFinite(y) THEN Cmp(x[1], x[2], y[1], y[2]) = 1
    ELSE IF IsFinite(x) THEN y = NInf
    ELSE IF IsFinite(y) THEN x = PInf
    ELSE x = PInf /\ y = NInf

Ge(x, y) == ~IsNaN(x) /\ ~IsNaN(y) /\ ~Gt(y, x)

\* Python's builtin max(a, b): b replaces a only when b > a
PyMax(a, b) == IF Gt(b, a) THEN b ELSE a

RECURSIVE Pow(_, _)
Pow(x, k) == IF k = 0 THEN Num(1) ELSE Mul(x, Pow(x, k - 1))

\* ------------------------------------------------------------ log domain
LogNaN == <<"nan">>

\* e * x for a log-domain quantity e and a number x that is an integer or NaN
Scale(e, x) ==
    IF e = LogNaN \/ ~IsFinite(x) THEN LogNaN
    ELSE <<"log", e[2] * x[1], e[3] * x[1]>>

LogNeg(e) == IF e = LogNaN THEN LogNaN ELSE <<"log", -e[2], -e[3]>>

LogSub(e, f) ==
    IF e = LogNaN \/ f = LogNaN THEN LogNaN
    ELSE <<"log", e[2] - f[2], e[3] - f[3]>>

Log(a, b) == <<"log", a, b>>

PowZ(x, k) == IF k >= 0 THEN Pow(x, k) ELSE Pow(Rat(x[2], x[1]), -k)

\* numpy.exp
exp(e) ==
    IF e = LogNaN THEN NaN
    ELSE Mul(PowZ(Num(2), e[2]), PowZ(Rat(5, 4), e[3]))

\* numpy.sqrt on the values delta_time takes here: -1, 0, 1
sqrt(x) ==
    IF IsNaN(x) \/ x[1] < 0 THEN NaN ELSE x

\* ------------------------------------------------------------ state
VARIABLES
    params,     \* the constructor arguments of the two pricers the driver builds
    count,      \* how many pricers the driver builds (1 or 2)
    cur,        \* the pricer the driver is working on
    pc,         \* the driver's position
    bt,         \* bt[k]: the attributes of pricer k (a record that grows)
    err,        \* err[k]: the exception that ended pricer k, or "none"
    S, P, exercise,  \* the local dicts of the running calculate_all_nodes_*
    i, j        \* its loop counters

vars == <<params, count, cur, pc, bt, err, S, P, exercise, i, j>>

NoAttrs == [a \in {} |-> 0]
EmptyMap == [n \in {} |-> NaN]
Put(m, n, v) == [x \in (DOMAIN m) \cup {n} |-> IF x = n THEN v ELSE m[x]]

\* ------------------------------------------------------------ BinomialTree
up_down(volatility, delta_time) ==
    <<exp(Scale(volatility, sqrt(delta_time))),
      exp(Scale(LogNeg(volatility), sqrt(delta_time)))>>

\* mutant: the dividend yield is left out of the growth factor
risk_neutral_probability_no_yield(interest_rate, dividend_yield, delta_time, up, down, volatility) ==
    Div(Sub(exp(Scale(interest_rate, delta_time)), down), Sub(up, down))

risk_neutral_probability(interest_rate, dividend_yield, delta_time, up, down, volatility) ==
    Div(Sub(exp(Scale(LogSub(interest_rate, dividend_yield), delta_time)), down),
        Sub(up, down))

\* the attributes __init__ sets (steps # 0)
init(a) ==
    LET delta_time == Div(Num(a.time_to_maturity), Num(a.steps))
        ud == up_down(a.volatility, delta_time)
    IN  [steps |-> a.steps,
         delta_time |-> delta_time,
         strike |-> a.strike,
         current_price |-> a.current_price,
         volatility |-> a.volatility,
         interest_rate |-> a.interest_rate,
         american_or_european |-> a.american_or_european,
         up |-> ud[1],
         down |-> ud[2],
         risk_neutral_probability |->
             risk_neutral_probability(a.interest_rate, a.dividend_yield,
                                      delta_time, ud[1], ud[2], a.volatility)]

\* BinomialTree(...): time_to_maturity / steps raises ZeroDivisionError on
\* steps = 0; nothing else is checked
Construct ==
    /\ pc = "construct"
    /\ IF params[cur].steps = 0
       THEN /\ err' = [err EXCEPT ![cur] = "ZeroDivisionError"]
            /\ pc' = "halt"
            /\ bt' = bt
       ELSE /\ bt' = [bt EXCEPT ![cur] = init(params[cur])]
            /\ pc' = "run_put"
            /\ err' = err
    /\ UNCHANGED <<params, count, cur, S, P, exercise, i, j>>

\* mutant: the up branch multiplies by down
LatticePriceDown(s, ii, jj, up, down) ==
    IF jj > 0 THEN Mul(s[<<ii - 1, jj - 1>>], down)
    ELSE Mul(s[<<ii - 1, 0>>], down)

\* one node of the forward price loop
LatticePrice(s, ii, jj, up, down) ==
    IF jj > 0 THEN Mul(s[<<ii - 1, jj - 1>>], up)
    ELSE Mul(s[<<ii - 1, 0>>], down)

\* mutant: the two payoffs are exchanged
PayoffSwapped(kind, strike, s) ==
    IF kind = "put" THEN Sub(s, Num(strike)) ELSE Sub(Num(strike), s)

\* strike - S for the put, S - strike for the call
Payoff(kind, strike, s) ==
    IF kind = "put" THEN Sub(Num(strike), s) ELSE Sub(s, Num(strike))

\* mutant: both branches read the down successor
ContinuationDownOnly(q, p, ii, jj, interest_rate, delta_time) ==
    Mul(exp(Scale(LogNeg(interest_rate), delta_time)),
        Add(Mul(q, p[<<ii + 1, jj>>]),
            Mul(Sub(Num(1), q), p[<<ii + 1, jj>>])))

Continuation(q, p, ii, jj, interest_rate, delta_time) ==
    Mul(exp(Scale(LogNeg(interest_rate), delta_time)),
        Add(Mul(q, p[<<ii + 1, jj + 1>>]),
            Mul(Sub(Num(1), q), p[<<ii + 1, jj>>])))

\* mutant: the style test is inverted
StyleOverrideInverted(american_or_european, v, intrinsic) ==
    IF american_or_european # "A" THEN PyMax(v, intrinsic) ELSE v

\* mutant: American style stores the intrinsic value without the max
StyleOverrideNoMax(american_or_european, v, intrinsic) ==
    IF american_or_european = "A" THEN intrinsic ELSE v

StyleOverride(american_or_european, v, intrinsic) ==
    IF american_or_european = "A" THEN PyMax(v, intrinsic) ELSE v

ExerciseFlag(v, intrinsic) == IF Gt(v, intrinsic) THEN "no" ELSE "yes"

\* the body of the backward loop at node (ii, jj): <<value, flag>>
NodeResult(kind, o, s, p, ii, jj) ==
    LET intrinsic == Payoff(kind, o.strike, s[<<ii, jj>>])
        v0 == IF ii = o.steps
              THEN PyMax(intrinsic, Num(0))
              ELSE Continuation(o.risk_neutral_probability, p, ii, jj,
                                o.interest_rate, o.delta_time)
        v1 == PyMax(v0, Num(0))
    IN  <<StyleOverride(o.american_or_european, v1, intrinsic),
          ExerciseFlag(v1, intrinsic)>>

\* entry of calculate_all_nodes_for_<kind>: S = {(0, 0): current_price}
Begin(kind) ==
    /\ pc = "run_" \o kind
    /\ S' = Put(EmptyMap, <<0, 0>>, Num(bt[cur].current_price))
    /\ P' = EmptyMap
    /\ exercise' = EmptyMap
    /\ i' = 1
    /\ j' = 0
    /\ pc' = kind \o "_S"
    /\ UNCHANGED <<params, count, cur, bt, err>>

LatticeStep(kind) ==
    /\ pc = kind \o "_S"
    /\ i <= bt[cur].steps
    /\ S' = Put(S, <<i, j>>, LatticePrice(S, i, j, bt[cur].up, bt[cur].down))
    /\ IF j < i THEN i' = i /\ j' = j + 1 ELSE i' = i + 1 /\ j' = 0
    /\ UNCHANGED <<params, count, cur, pc, bt, err, P, exercise>>

InductionBegin(kind) ==
    /\ pc = kind \o "_S"
    /\ i > bt[cur].steps
    /\ P' = EmptyMap
    /\ exercise' = EmptyMap
    /\ i' = bt[cur].steps
    /\ j' = 0
    /\ pc' = kind \o "_P"
    /\ UNCHANGED <<params, count, cur, bt, err, S>>

InductionStep(kind) ==
    /\ pc = kind \o "_P"
    /\ i >= 0
    /\ LET r == NodeResult(kind, bt[cur], S, P, i, j)
       IN  /\ P' = Put(P, <<i, j>>, r[1])
           /\ exercise' = Put(exercise, <<i, j>>, r[2])
    /\ IF j < i THEN i' = i /\ j' = j + 1 ELSE i' = i - 1 /\ j' = 0
    /\ UNCHANGED <<params, count, cur, pc, bt, err, S>>

\* return S, P, exercise and the assignment in run()
Return(kind) ==
    /\ pc = kind \o "_P"
    /\ i < 0
    /\ bt' = [bt EXCEPT ![cur] =
                 IF kind = "put"
                 THEN @ @@ [put_S |-> S, put_P |-> P, put_exercise |-> exercise]
                 ELSE @ @@ [call_S |-> S, call_P |-> P, call_exercise |-> exercise]]
    /\ pc' = IF kind = "put" THEN "run_call" ELSE "ran"
    /\ UNCHANGED <<params, count, cur, err, S, P, exercise, i, j>>

PutsBegin == Begin("put")
PutsLatticeStep == LatticeStep("put")
PutsInductionBegin == InductionBegin("put")
PutsInductionStep == InductionStep("put")
PutsReturn == Return("put")
CallsBegin == Begin("call")
CallsLatticeStep == LatticeStep("call")
CallsInductionBegin == InductionBegin("call")
CallsInductionStep == InductionStep("call")
CallsReturn == Return("call")

\* run() has returned: the driver goes on to its next pricer, if any
NextPricer ==
    /\ pc = "ran"
    /\ IF cur < count
       THEN cur' = cur + 1 /\ pc' = "construct"
       ELSE cur' = cur /\ pc' = "done"
    /\ UNCHANGED <<params, count, bt, err, S, P, exercise, i, j>>

Next ==
    \/ Construct
    \/ PutsBegin
    \/ PutsLatticeStep
    \/ PutsInductionBegin
    \/ PutsInductionStep
    \/ PutsReturn
    \/ CallsBegin
    \/ CallsLatticeStep
    \/ CallsInductionBegin
    \/ CallsInductionStep
    \/ CallsReturn
    \/ NextPricer

\* ------------------------------------------------------------ inputs
VolSet == {Log(0, 0), Log(1, 0), Log(0, 1)}
RateSet == {Log(0, 0), Log(1, 0)}
YieldSet == {Log(-2, 0), Log(0, 0), Log(1, 0), Log(3, 0)}
StyleSet == {"A", "E"}

Args(n, t, k, s0, vol, r, q, st) ==
    [steps |-> n, time_to_maturity |-> t, strike |-> k, current_price |-> s0,
     volatility |-> vol, interest_rate |-> r, dividend_yield |-> q,
     american_or_european |-> st]

\* the parameter sets the data model allows: N >= 1, T > 0, K > 0, S0 > 0,
\* sigma >= 0 (time unit: one step)
ValidArgs ==
    {Args(n, n, k, s0, vol, r, q, st) :
        n \in 1..MaxSteps, k \in 1..MaxStrike, s0 \in 1..MaxPrice,
        vol \in VolSet, r \in RateSet, q \in YieldSet, st \in StyleSet}

\* the second pricer: the first one's arguments with the other style, or
\* with a larger strike
Variants(a) ==
    {[a EXCEPT !.american_or_european = "E"] : x \in {a.american_or_european} \cap {"A"}}
    \cup {[a EXCEPT !.strike = k] : k \in (a.strike + 1)..MaxStrike}

InitCommon ==
    /\ cur = 1
    /\ pc = "construct"
    /\ bt = <<NoAttrs, NoAttrs>>
    /\ err = <<"none", "none">>
    /\ S = EmptyMap
    /\ P = EmptyMap
    /\ exercise = EmptyMap
    /\ i = 0
    /\ j = 0

Init ==
    /\ \E a \in ValidArgs : \E b \in Variants(a) : params = <<a, b>>
    /\ count = 2
    /\ InitCommon

Spec == Init /\ [][Next]_vars

\* any arguments at all, one pricer: the constructor checks nothing
AnyArgs ==
    {Args(n, t, k, s0, vol, r, q, st) :
        n \in -1..2, t \in -1..1, k \in -1..1, s0 \in -1..1,
        vol \in {Log(-1, 0), Log(0, 0), Log(1, 0)}, r \in {Log(0, 0)},
        q \in {Log(0, 0)}, st \in StyleSet}

InitAny ==
    /\ \E a \in AnyArgs : params = <<a, a>>
    /\ count = 1
    /\ InitCommon

SpecAny == InitAny /\ [][Next]_vars

\* ------------------------------------------------------------ vocabulary
Nodes(n) == {x \in (0..n) \X (0..n) : x[2] <= x[1]}

Called(k) == k < cur \/ (k = cur /\ pc # "construct")
HasPuts(k) == "put_P" \in DOMAIN bt[k]
Ran(k) == "call_P" \in DOMAIN bt[k]
Kinds == {"put", "call"}
Prices(k, kind) == IF kind = "put" THEN bt[k].put_S ELSE bt[k].call_S
Values(k, kind) == IF kind = "put" THEN bt[k].put_P ELSE bt[k].call_P
Flags(k, kind) == IF kind = "put" THEN bt[k].put_exercise ELSE bt[k].call_exercise

American(k) == params[k].american_or_european = "A"
InUnit(x) == Ge(x, Num(0)) /\ Ge(Num(1), x)
WellPosed(k) == InUnit(bt[k].risk_neutral_probability)
Degenerate(k) == bt[k].up = bt[k].down

\* the two pricers have both run and differ in the exercise style only
StylePair ==
    /\ pc = "done"
    /\ count = 2
    /\ params[2] = [params[1] EXCEPT !.american_or_european = "E"]
    /\ American(1)

\* the two pricers have both run and differ in the strike only, K1 < K2
StrikePair ==
    /\ pc = "done"
    /\ count = 2
    /\ params[1].strike < params[2].strike
    /\ params[2] = [params[1] EXCEPT !.strike = params[2].strike]

\* ------------------------------------------------------------ C1
\* C1 (as claimed): after run(), every stored put and call value is >= 0,
\* whatever the parameter set.
C1_NonNegative ==
    \A k \in 1..2 : Ran(k) =>
        \A kind \in Kinds : \A n \in DOMAIN Values(k, kind) :
            Ge(Values(k, kind)[n], Num(0))

\* C1, on the pricers whose up and down factors differ (sigma # 0): holds.
C1_NonNegativeNonDegenerate ==
    \A k \in 1..2 : (Ran(k) /\ ~Degenerate(k)) =>
        \A kind \in Kinds : \A n \in DOMAIN Values(k, kind) :
            Ge(Values(k, kind)[n], Num(0))

\* ------------------------------------------------------------ C2
\* C2 (as claimed, on the pricers whose up and down factors differ): the
\* American value is >= the European value at every node, for the put and
\* the call, whatever the parameter set.
C2_AmericanAtLeastEuropean ==
    (StylePair /\ ~Degenerate(1)) =>
        \A kind \in Kinds : \A n \in Nodes(params[1].steps) :
            Ge(Values(1, kind)[n], Values(2, kind)[n])

\* C2 (amended): when the risk-neutral probability lies in [0,1], the
\* American value is >= the European value at every node, put and call.
C2_AmericanAtLeastEuropeanWellPosed ==
    (StylePair /\ WellPosed(1)) =>
        \A kind \in Kinds : \A n \in Nodes(params[1].steps) :
            Ge(Values(1, kind)[n], Values(2, kind)[n])

\* an early-exercise premium at the root of a well-posed pair
C2_Witness ==
    /\ StylePair
    /\ WellPosed(1)
    /\ params[1].steps >= 2
    /\ Gt(bt[1].put_P[<<0, 0>>], bt[2].put_P[<<0, 0>>])

\* ------------------------------------------------------------ C3
\* S0*exp(-q*T) - K*exp(-r*T)
ParityTarget(a) ==
    Sub(Mul(Num(a.current_price),
            exp(Scale(LogNeg(a.dividend_yield), Num(a.time_to_maturity)))),
        Mul(Num(a.strike),
            exp(Scale(LogNeg(a.interest_rate), Num(a.time_to_maturity)))))

ParityHolds(k) ==
    Sub(bt[k].call_P[<<0, 0>>], bt[k].put_P[<<0, 0>>]) = ParityTarget(params[k])

\* C3 (as claimed): European style, sigma > 0: Call(0,0) - Put(0,0) equals
\* S0*exp(-q*T) - K*exp(-r*T).
C3_PutCallParity ==
    \A k \in 1..2 :
        (Ran(k) /\ ~American(k) /\ params[k].volatility # Log(0, 0)) => ParityHolds(k)

\* C3 (amended): European style, sigma > 0 and risk-neutral probability in
\* [0,1]: Call(0,0) - Put(0,0) equals S0*exp(-q*T) - K*exp(-r*T).
C3_PutCallParityWellPosed ==
    \A k \in 1..2 :
        (Ran(k) /\ ~American(k) /\ params[k].volatility # Log(0, 0) /\ WellPosed(k))
            => ParityHolds(k)

\* a well-posed European pricer with a dividend yield, several steps and
\* both root values positive
C3_Witness ==
    \E k \in 1..2 :
        /\ Ran(k) /\ ~American(k) /\ WellPosed(k)
        /\ params[k].volatility # Log(0, 0)
        /\ params[k].dividend_yield # Log(0, 0)
        /\ params[k].steps >= 2
        /\ Gt(bt[k].call_P[<<0, 0>>], Num(0))
        /\ Gt(bt[k].put_P[<<0, 0>>], Num(0))

\* ------------------------------------------------------------ C4
MonotoneInStrike ==
    \A n \in Nodes(params[1].steps) :
        /\ Ge(bt[2].put_P[n], bt[1].put_P[n])
        /\ Ge(bt[1].call_P[n], bt[2].call_P[n])

\* C4 (as claimed, on the pricers whose up and down factors differ): with
\* K1 < K2 and all else equal, at every node the put value under K2 is >=
\* the one under K1 and the call value under K2 is <= the one under K1.
C4_StrikeMonotone == (StrikePair /\ ~Degenerate(1)) => MonotoneInStrike

\* C4 (amended): the same, for parameter sets whose risk-neutral
\* probability lies in [0,1].
C4_StrikeMonotoneWellPosed == (StrikePair /\ WellPosed(1)) => MonotoneInStrike

\* a well-posed strike pair whose root values differ strictly both ways
C4_Witness ==
    /\ StrikePair
    /\ WellPosed(1)
    /\ params[1].steps >= 2
    /\ Gt(bt[2].put_P[<<0, 0>>], bt[1].put_P[<<0, 0>>])
    /\ Gt(bt[1].call_P[<<0, 0>>], bt[2].call_P[<<0, 0>>])

\* ------------------------------------------------------------ C5
\* C5 (as claimed): American style: at every node flagged "yes" the stored
\* value equals the intrinsic value (K - S for the put, S - K for the call).
C5_ExerciseFlagConsistent ==
    \A k \in 1..2 : (Ran(k) /\ American(k)) =>
        \A kind \in Kinds : \A n \in DOMAIN Flags(k, kind) :
            Flags(k, kind)[n] = "yes" =>
                Values(k, kind)[n] = Payoff(kind, params[k].strike, Prices(k, kind)[n])

\* C5, on the pricers whose up and down factors differ (sigma # 0): holds.
C5_ExerciseFlagConsistentNonDegenerate ==
    \A k \in 1..2 : (Ran(k) /\ American(k) /\ ~Degenerate(k)) =>
        \A kind \in Kinds : \A n \in DOMAIN Flags(k, kind) :
            Flags(k, kind)[n] = "yes" =>
                Values(k, kind)[n] = Payoff(kind, params[k].strike, Prices(k, kind)[n])

\* ------------------------------------------------------------ C6
InvalidArgs(a) ==
    \/ a.steps < 1
    \/ a.time_to_maturity <= 0
    \/ a.current_price <= 0
    \/ a.strike <= 0
    \/ a.volatility[2] < 0

ResultAttrs ==
    {"put_S", "put_P", "put_exercise", "call_S", "call_P", "call_exercise"}

\* C6 (as claimed): a pricer built with an invalid parameter fails at
\* construction with InvalidParameterError and never holds a result map.
C6_InvalidRejected ==
    \A k \in 1..2 : InvalidArgs(params[k]) =>
        /\ Called(k) => err[k] = "InvalidParameterError"
        /\ DOMAIN bt[k] \cap ResultAttrs = {}

\* ------------------------------------------------------------ C7
\* C7 (as claimed): with sigma = 0 (u = d) construction fails with
\* DegenerateModelError, and no infinite or NaN probability is ever stored.
C7_DegenerateRejected ==
    \A k \in 1..2 :
        /\ (Called(k) /\ params[k].volatility = Log(0, 0))
               => err[k] = "DegenerateModelError"
        /\ "risk_neutral_probability" \in DOMAIN bt[k]
               => IsFinite(bt[k].risk_neutral_probability)

\* ------------------------------------------------------------ C8
\* S0 * u^j * d^(i-j)
ClosedForm(o, n) ==
    Mul(Num(o.current_price), Mul(Pow(o.up, n[2]), Pow(o.down, n[1] - n[2])))

LatticeOk(o, s) ==
    /\ DOMAIN s = Nodes(o.steps)
    /\ \A n \in DOMAIN s : s[n] = ClosedForm(o, n)
    /\ (o.steps >= 2 /\ Mul(o.up, o.down) = Num(1))
           => s[<<2, 1>>] = Num(o.current_price)

Recursion(kind, o, s, p, n) ==
    LET intrinsic == IF kind = "put" THEN Sub(Num(o.strike), s[n])
                     ELSE Sub(s[n], Num(o.strike))
        discount == exp(Scale(LogNeg(o.interest_rate), o.delta_time))
        q == o.risk_neutral_probability
        C == Mul(discount,
                 Add(Mul(q, p[<<n[1] + 1, n[2] + 1>>]),
                     Mul(Sub(Num(1), q), p[<<n[1] + 1, n[2]>>])))
    IN  IF n[1] = o.steps THEN PyMax(intrinsic, Num(0))
        ELSE IF o.american_or_european = "A"
             THEN PyMax(PyMax(C, Num(0)), intrinsic)
             ELSE PyMax(C, Num(0))

\* every valued node has both successors valued and holds its recursion value
RecursionOk(kind, o, s, p) ==
    \A n \in DOMAIN p :
        /\ n[1] < o.steps =>
               {<<n[1] + 1, n[2] + 1>>, <<n[1] + 1, n[2]>>} \subseteq DOMAIN p
        /\ p[n] = Recursion(kind, o, s, p, n)

C9_RecursionHolds ==
    /\ pc = "put_P" => RecursionOk("put", bt[cur], S, P)
    /\ pc = "call_P" => RecursionOk("call", bt[cur], S, P)
    /\ pc \in {"ran", "done"} =>
           \A k \in 1..2 : Ran(k) =>
               /\ DOMAIN bt[k].put_P = Nodes(bt[k].steps)
               /\ RecursionOk("put", bt[k], bt[k].put_S, bt[k].put_P)
               /\ DOMAIN bt[k].call_P = Nodes(bt[k].steps)
               /\ RecursionOk("call", bt[k], bt[k].call_S, bt[k].call_P)

\* a value, once stored, is never changed: neither during the backward loop
\* nor once the map is an attribute of the pricer
C9_ValuesStable ==
    /\ (pc \in {"put_P", "call_P"} /\ pc' = pc) =>
           \A n \in DOMAIN P : n \in DOMAIN P' /\ P'[n] = P[n]
    /\ pc \in {"put_P", "call_P"} =>
           \A n \in DOMAIN P :
               \A k \in 1..2 :
                   /\ (pc = "put_P" /\ pc' # pc /\ k = cur) => bt'[k].put_P[n] = P[n]
                   /\ (pc = "call_P" /\ pc' # pc /\ k = cur) => bt'[k].call_P[n] = P[n]
    /\ \A k \in 1..2 :
        /\ HasPuts(k) => bt'[k].put_P = bt[k].put_P
        /\ Ran(k) => bt'[k].call_P = bt[k].call_P

\* C9: terminal nodes hold max(payoff, 0); an interior node holds max(C, 0)
\* (European) or max(max(C, 0), payoff) (American), C being the discounted
\* expectation of the stored values of its two successors, which are valued
\* before it and never changed afterwards.
C9_BackwardInduction == []C9_RecursionHolds /\ [][C9_ValuesStable]_vars

\* an American pricer that ran on two or more steps, with an interior node
\* where the intrinsic value overrides a positive continuation value and a
\* root that rests on it
C9_Witness ==
    \E k \in 1..2 :
        /\ Ran(k) /\ American(k) /\ WellPosed(k)
        /\ bt[k].steps >= 2
        /\ bt[k].put_exercise[<<1, 0>>] = "yes"
        /\ Gt(bt[k].put_P[<<1, 0>>], Num(0))
        /\ Gt(bt[k].put_P[<<1, 1>>], Num(0))
        /\ bt[k].put_exercise[<<0, 0>>] = "no"

\* ------------------------------------------------------------ C10
\* C10 (as claimed): the European pricer's flag map equals the American
\* pricer's flag map at every node, for the put and for the call.
C10_FlagsEqual ==
    StylePair => \A kind \in Kinds : Flags(1, kind) = Flags(2, kind)

\* C10 (amended): the flag is set at every node under either style, and the
\* two styles' flag maps agree at every node of the last two steps
\* (i >= N - 1).
C10_FlagsEqualLastTwoSteps ==
    /\ \A k \in 1..2 : Ran(k) =>
           \A kind \in Kinds : DOMAIN Flags(k, kind) = Nodes(bt[k].steps)
    /\ StylePair =>
           \A kind \in Kinds : \A n \in Nodes(params[1].steps) :
               n[1] >= params[1].steps - 1 => Flags(1, kind)[n] = Flags(2, kind)[n]

\* a well-posed style pair whose flags differ at a node before the last two
\* steps
C10_Witness ==
    /\ StylePair
    /\ WellPosed(1)
    /\ \E kind \in Kinds : \E n \in Nodes(params[1].steps) :
           /\ n[1] < params[1].steps - 1
           /\ Flags(1, kind)[n] # Flags(2, kind)[n]

====
